---- MODULE Spec2Model ----
(***************************************************************************)
(* Nested-relationship mutation resolver (resolveNested and its helpers).  *)
(* One behaviour of the model is one call of resolveNested: the arguments  *)
(* are chosen in Init, the call runs from one await to the next, and the   *)
(* collaborator list settles the issued itemQuery / createMutation calls   *)
(* one at a time, in any order and with any outcome.                       *)
(***************************************************************************)
EXTENDS Integers, Sequences, FiniteSets, TLC

\* Bounds of the model.
MaxId == 1      \* stored ids are the numbers 1..MaxId and the strings "1".."MaxId"
MaxItems == 2   \* items of a to-many input, over its create/connect/disconnect lists

VARIABLES
  many,          \* the cardinality flag of the call
  rawInput,      \* the input argument of resolveNested
  currentValue,  \* the currentValue argument
  pc,            \* where the call is: "start", an await, "returned" or "thrown"
  input,         \* the resolver's input: cleanAndValidateInput's result
  calls,         \* the collaborator calls issued so far, in issue order
  disconnectIds, \* resolveNestedMany's disconnectIds
  connectRun,    \* result of the first _runActions: [connectedItems, connectErrors]
  result_,       \* resolveNestedSingle's result_
  result,        \* the value the call returned
  error          \* the error the call threw

vars == <<many, rawInput, currentValue, pc, input, calls, disconnectIds,
          connectRun, result_, result, error>>

-----------------------------------------------------------------------------
\* JavaScript values.

Undefined == [type |-> "undefined"]
Null == [type |-> "null"]
Bool(b) == [type |-> "boolean", bool |-> b]
Num(n) == [type |-> "number", num |-> n]
Str(s) == [type |-> "string", str |-> s]
Obj(props) == [type |-> "object", props |-> props]
Arr(items) == [type |-> "array", items |-> items]

EmptyObj == Obj(<<>>)

\* Truthiness of the values the model uses (numbers are non-zero, strings non-empty).
Truthy(v) ==
  /\ v.type \notin {"undefined", "null"}
  /\ v.type = "boolean" => v.bool

ObjectKeys(o) == DOMAIN o.props

\* o[k]: undefined for a key the object does not have.
Get(o, k) == IF o.type = "object" /\ k \in DOMAIN o.props THEN o.props[k] ELSE Undefined

IsArray(v) == v.type = "array"

Digits == <<"1", "2", "3", "4", "5", "6", "7", "8", "9">>

\* id.toString(): a number becomes its decimal string, a string is itself.
toString(v) == IF v.type = "number" THEN Str(Digits[v.num]) ELSE v

Range(s) == {s[i] : i \in DOMAIN s}

-----------------------------------------------------------------------------
\* The fixed collaborators of a call.

NESTED_MUTATIONS == <<"create", "connect", "disconnect", "disconnectAll">>

FieldPath == "posts"                 \* localField.path
Target == "User.posts<Post>"         \* target
Context == "context"                 \* context
MutationState == "mutationState"     \* mutationState
ItemQueryName == "Post"              \* refList.gqlNames.itemQueryName

-----------------------------------------------------------------------------
\* Input validation.

MissingOperation == "Must provide a nested mutation"
ConflictingOperations == "Can only provide one of 'connect' or 'create'"

\* intersection(Object.keys(input), NESTED_MUTATIONS)
Intersection(keys, wanted) == keys \cap Range(wanted)

\* The to-many filter without the look into the items.
HasParametersManyAnyList(inp, mutation) ==
  \/ mutation = "disconnectAll"
  \/ IsArray(inp.props[mutation])

HasParametersMany(inp, mutation) ==
  \/ mutation = "disconnectAll"
  \/ /\ IsArray(inp.props[mutation])
     /\ Len(SelectSeq(inp.props[mutation].items,
                      LAMBDA item : Cardinality(ObjectKeys(item)) # 0)) # 0

HasParametersSingle(inp, mutation) ==
  \/ mutation = "disconnectAll"
  \/ Cardinality(ObjectKeys(inp.props[mutation])) # 0

\* The filtered list validateInput computes before its two checks.
validInputMutations(inp, isMany) ==
  {mutation \in Intersection(ObjectKeys(inp), NESTED_MUTATIONS) :
     IF isMany THEN HasParametersMany(inp, mutation)
               ELSE HasParametersSingle(inp, mutation)}

\* validateInput without its create-and-connect check.
validateInputNoConflict(inp, isMany) ==
  LET valid == validInputMutations(inp, isMany) IN
  IF valid = {}
    THEN [ok |-> FALSE, error |-> MissingOperation]
    ELSE [ok |-> TRUE, valid |-> valid]

\* validateInput: [ok |-> TRUE, valid |-> keys] or [ok |-> FALSE, error |-> ParameterError].
validateInput(inp, isMany) ==
  LET valid == validInputMutations(inp, isMany) IN
  IF valid = {}
    THEN [ok |-> FALSE, error |-> MissingOperation]
  ELSE IF ~isMany /\ "create" \in valid /\ "connect" \in valid
    THEN [ok |-> FALSE, error |-> ConflictingOperations]
  ELSE [ok |-> TRUE, valid |-> valid]

\* pick that hands the object back whole.
pickAll(o, keys) == o

\* pick(input, keys)
pick(o, keys) == Obj([k \in DOMAIN o.props \cap keys |-> o.props[k]])

\* throwWithErrors that also hands over the disconnect ids resolved so far.
throwWithDisconnect(message, errors) ==
  [message |-> message, errors |-> errors, disconnect |-> disconnectIds]

\* throwWithErrors: the thrown error object.
throwWithErrors(message, errors) == [message |-> message, errors |-> errors]

\* cleanAndValidateInput: the pruned input, or the error it throws.
cleanAndValidateInput(inp, isMany) ==
  LET v == validateInput(inp, isMany) IN
  IF v.ok
    THEN [ok |-> TRUE, input |-> pick(inp, v.valid)]
    ELSE [ok |-> FALSE,
          thrown |-> throwWithErrors(
             <<"Nested mutation operation invalid for", Target>>,
             <<[reason |-> v.error, path |-> <<FieldPath>>]>>)]

-----------------------------------------------------------------------------
\* The argument domain of the call.

Ids == {Num(i) : i \in 1..MaxId} \cup {Str(Digits[i]) : i \in 1..MaxId}

IdSeq == [i \in 1..(2 * MaxId) |-> IF i <= MaxId THEN Num(i) ELSE Str(Digits[i - MaxId])]

WithId == {Obj([id |-> v]) : v \in Ids}
WithName == {Obj([name |-> Str("x")])}

ConnectItems == {EmptyObj} \cup WithId
CreateItems == {EmptyObj} \cup WithName
DisconnectItems == {EmptyObj} \cup WithId \cup WithName

\* The values of a to-many list key holding n items; empties are the values of a
\* key that holds none.
ListValues(items, n, empties) ==
  IF n = 0 THEN empties ELSE {Arr(s) : s \in [1..n -> items]}

\* A key that holds no item: absent, an empty list, or not a list.
Absent == {Undefined}
Empties == {Undefined, Arr(<<>>), EmptyObj}

\* The values of a to-one key.
SingleValues(items) == {Undefined} \cup items

DisconnectAllValues == {Undefined, Bool(TRUE), Bool(FALSE)}
UnknownValues == {Undefined, Bool(TRUE)}

\* An object literal without its undefined (absent) keys.
Literal(props) == Obj([k \in {k \in DOMAIN props : props[k] # Undefined} |-> props[k]])

\* To-many inputs of at most MaxItems items.
ManyInputs(empties, unknowns) ==
  {Literal([create |-> cr, connect |-> co, disconnect |-> di, disconnectAll |-> da,
            unknown |-> un]) :
     <<cr, co, di, da, un>> \in
       UNION {ListValues(CreateItems, n[1], empties) \X ListValues(ConnectItems, n[2], empties)
                \X ListValues(DisconnectItems, n[3], empties)
                \X DisconnectAllValues \X unknowns :
              n \in {m \in (0..MaxItems) \X (0..MaxItems) \X (0..MaxItems) :
                       m[1] + m[2] + m[3] <= MaxItems}}}

\* To-one inputs.
SingleInputs(unknowns) ==
  {Literal([create |-> cr, connect |-> co, disconnect |-> di, disconnectAll |-> da,
            unknown |-> un]) :
     <<cr, co, di, da, un>> \in
       SingleValues(CreateItems) \X SingleValues(ConnectItems)
         \X SingleValues(DisconnectItems) \X DisconnectAllValues \X unknowns}

\* To-many current values: the stored ids, as a list.
ManyCurrentValues == {Arr(SubSeq(IdSeq, 1, n)) : n \in 0..Len(IdSeq)}
\* To-one current values: one stored id, or none.
SingleCurrentValues == {Null} \cup Ids

-----------------------------------------------------------------------------
\* Collaborator calls.

\* A call of refList.itemQuery / refList.createMutation as issued: its three
\* arguments, the operation and list position it was issued for, and its promise.
Call(fn, arg, third, op, index) ==
  [fn |-> fn, arg |-> arg, context |-> Context, third |-> third,
   op |-> op, index |-> index,
   state |-> "pending", value |-> Undefined, settledAt |-> 0]

Pending(c) == c.state = "pending"
OfOp(op) == SelectSeq(calls, LAMBDA c : c.op = op)
\* Resumes on the first settlement of the batch.
AnySettled(op) ==
  (\E i \in DOMAIN calls : calls[i].op = op) =>
    \E i \in DOMAIN calls : calls[i].op = op /\ ~Pending(calls[i])

AllSettled(op) == \A i \in DOMAIN calls : calls[i].op = op => ~Pending(calls[i])
NumSettled == Cardinality({i \in DOMAIN calls : ~Pending(calls[i])})
NumCreated ==
  Cardinality({i \in DOMAIN calls :
                 calls[i].fn = "createMutation" /\ calls[i].state = "fulfilled"})

Item(id) == Obj([id |-> id])

\* What the collaborator can answer to a call: an item, null, or a rejection.
\* A lookup by id finds the item of that id or nothing; a lookup by another
\* selector finds any stored item or nothing; a create returns a new item.
Fulfilments(c) ==
  IF c.fn = "createMutation" THEN {Item(Num(MaxId + NumCreated + 1))}
  ELSE IF c.arg \in Ids THEN {Item(c.arg), Null}
  ELSE IF c.arg = Undefined THEN {Null}
  ELSE {Item(id) : id \in Ids} \cup {Null}

-----------------------------------------------------------------------------
\* Settling of batches.

\* pSettle returning the settle infos in the order the promises completed.
pSettleInCompletionOrder(op) ==
  LET batch == OfOp(op) IN
  [k \in DOMAIN batch |->
     batch[CHOOSE i \in DOMAIN batch :
             Cardinality({j \in DOMAIN batch : batch[j].settledAt < batch[i].settledAt})
               = k - 1]]

\* pSettle(promises): the settle infos in the order of the promises, which is the
\* issue order, whatever the order of completion.
pSettle(op) == OfOp(op)

\* The settle infos numbered from one.
IndexedFromOne(results) == [i \in DOMAIN results |-> [info |-> results[i], index |-> i]]

\* results.map((settleInfo, index) => ({ ...settleInfo, index }))
Indexed(results) == [i \in DOMAIN results |-> [info |-> results[i], index |-> i - 1]]

\* _runActions that stops at the first rejection.
runActionsFirstError(results, path) ==
  LET rejected == SelectSeq(Indexed(results), LAMBDA r : r.info.state = "rejected")
      errors == [i \in DOMAIN rejected |->
                   [reason |-> rejected[i].info.value,
                    path |-> path \o <<rejected[i].index>>]]
  IN <<IF Len(errors) # 0 THEN <<>> ELSE [i \in DOMAIN results |-> results[i].value],
       IF Len(errors) # 0 THEN <<errors[1]>> ELSE <<>>>>

\* _runActions after its await: <<values or [], errors>>.
runActions(results, path) ==
  LET rejected == SelectSeq(Indexed(results), LAMBDA r : r.info.state = "rejected")
      errors == [i \in DOMAIN rejected |->
                   [reason |-> rejected[i].info.value,
                    path |-> path \o <<rejected[i].index>>]]
  IN <<IF Len(errors) # 0 THEN <<>> ELSE [i \in DOMAIN results |-> results[i].value],
       errors>>

-----------------------------------------------------------------------------
\* resolveNestedMany, from one await to the next.

\* groupBy(input.disconnect, ({ id }) => id ? 'withId' : 'withoutId')
withId(items) == SelectSeq(items, LAMBDA item : Truthy(Get(item, "id")))
withoutId(items) == SelectSeq(items, LAMBDA item : ~Truthy(Get(item, "id")))

\* A lookup for every selector, with or without an id.
DisconnectCallsForAll(items) ==
  [i \in DOMAIN items |-> Call("itemQuery", items[i], ItemQueryName, "disconnect", i - 1)]

\* (withoutId || []).map(action): one itemQuery(where, context, itemQueryName) each.
DisconnectCalls(items) ==
  [i \in DOMAIN withoutId(items) |->
     Call("itemQuery", withoutId(items)[i], ItemQueryName, "disconnect", i - 1)]

\* (input.connect || []).map(action): one itemQuery(where.id, context, itemQueryName) each.
ConnectCalls(inp) ==
  LET targets == Get(inp, "connect") IN
  IF Truthy(targets)
    THEN [i \in DOMAIN targets.items |->
            Call("itemQuery", Get(targets.items[i], "id"), ItemQueryName, "connect", i - 1)]
    ELSE <<>>

\* Each create handed a state object of its own.
CreateCallsFreshState(inp) ==
  LET targets == Get(inp, "create") IN
  IF Truthy(targets)
    THEN [i \in DOMAIN targets.items |->
            Call("createMutation", targets.items[i], <<MutationState, i>>, "create", i - 1)]
    ELSE <<>>

\* (input.create || []).map(action): one createMutation(data, context, mutationState) each.
CreateCalls(inp) ==
  LET targets == Get(inp, "create") IN
  IF Truthy(targets)
    THEN [i \in DOMAIN targets.items |->
            Call("createMutation", targets.items[i], MutationState, "create", i - 1)]
    ELSE <<>>

\* Both batches issued at once.
ConnectionsIssuedWithCreates(inp) == ConnectCalls(inp) \o CreateCalls(inp)

\* The calls issued when the connections section is entered, up to its first await.
ConnectionsIssued(inp) == ConnectCalls(inp)

\* No create once a connect lookup has rejected.
CreatesIssuedUnlessFailed(inp) ==
  IF \E i \in DOMAIN calls : calls[i].op = "connect" /\ calls[i].state = "rejected"
    THEN <<>>
    ELSE CreateCalls(inp)

\* The calls issued between the two _runActions awaits.
CreatesIssued(inp) == CreateCalls(inp)

\* Disconnect lookups treated like _runActions: one rejection empties the list.
DisconnectLookupIdsAllOrNothing(results) ==
  LET found == SelectSeq(results, LAMBDA c : Truthy(c.value))
  IN IF \E i \in DOMAIN results : results[i].state = "rejected"
       THEN <<>>
       ELSE [i \in DOMAIN found |-> Get(found[i].value, "id")]

\* The ids of the fulfilled, non-null disconnect lookups, in pSettle's order.
DisconnectLookupIds(results) ==
  LET fulfilled == SelectSeq(results, LAMBDA c : c.state = "fulfilled")
      found == SelectSeq(fulfilled, LAMBDA c : Truthy(c.value))
  IN [i \in DOMAIN found |-> Get(found[i].value, "id")]

\* Connected ids with the ids being disconnected taken out.
allConnectedIdsDeduplicated(connectedItems, createdItems) ==
  LET items == SelectSeq(connectedItems \o createdItems,
                         LAMBDA item : Truthy(item) /\ Get(item, "id") \notin Range(disconnectIds))
  IN [i \in DOMAIN items |-> Get(items[i], "id")]

\* [...connectedItems, ...createdItems].filter(item => item).map(({ id }) => id)
allConnectedIds(connectedItems, createdItems) ==
  LET items == SelectSeq(connectedItems \o createdItems, Truthy)
  IN [i \in DOMAIN items |-> Get(items[i], "id")]

\* The disconnect list looked at before disconnectAll.
disconnectionListFirst(inp) ==
  IF Truthy(Get(inp, "disconnect")) THEN "disconnect"
  ELSE IF Truthy(Get(inp, "disconnectAll")) THEN "disconnectAll"
  ELSE "none"

\* The branch of lines 82-84: disconnectAll wins over disconnect.
disconnection(inp) ==
  IF Truthy(Get(inp, "disconnectAll")) THEN "disconnectAll"
  ELSE IF Truthy(Get(inp, "disconnect")) THEN "disconnect"
  ELSE "none"

\* The value resolveNestedMany returns.
ManyResult(dIds, cIds) == Obj([disconnect |-> dIds, connect |-> cIds])

\* Lines 109-144 up to the first await of the connections section, or the return.
Connections(inp, dIds) ==
  /\ disconnectIds' = dIds
  /\ IF Truthy(Get(inp, "connect")) \/ Truthy(Get(inp, "create"))
       THEN /\ calls' = calls \o ConnectionsIssued(inp)
            /\ pc' = "many_connect"
            /\ UNCHANGED result
       ELSE /\ pc' = "returned"
            /\ result' = ManyResult(dIds, <<>>)
            /\ UNCHANGED calls

\* Validation that runs only after the to-many batches of the raw input went out.
ResolveNestedInvalidAfterCalls ==
  /\ pc = "start"
  /\ ~cleanAndValidateInput(rawInput, many).ok
  /\ pc' = "thrown"
  /\ error' = cleanAndValidateInput(rawInput, many).thrown
  /\ calls' = IF many THEN calls \o ConnectCalls(rawInput) \o CreateCalls(rawInput)
                      ELSE calls
  /\ UNCHANGED <<many, rawInput, currentValue, input, disconnectIds,
                 connectRun, result_, result>>

\* resolveNested on an input that validation refuses.
ResolveNestedInvalid ==
  /\ pc = "start"
  /\ ~cleanAndValidateInput(rawInput, many).ok
  /\ pc' = "thrown"
  /\ error' = cleanAndValidateInput(rawInput, many).thrown
  /\ UNCHANGED <<many, rawInput, currentValue, input, calls, disconnectIds,
                 connectRun, result_, result>>

\* resolveNested, to-many: validation, then resolveNestedMany up to its first await.
ResolveNestedMany ==
  /\ pc = "start"
  /\ many
  /\ cleanAndValidateInput(rawInput, many).ok
  /\ LET inp == cleanAndValidateInput(rawInput, many).input IN
     /\ input' = inp
     /\ IF disconnection(inp) = "disconnectAll"
          THEN Connections(inp, currentValue.items)
        ELSE IF disconnection(inp) = "disconnect"
          THEN LET items == Get(inp, "disconnect").items IN
               /\ disconnectIds' = [i \in DOMAIN withId(items) |-> Get(withId(items)[i], "id")]
               /\ calls' = calls \o DisconnectCalls(items)
               /\ pc' = "many_disconnect"
               /\ UNCHANGED result
        ELSE Connections(inp, <<>>)
  /\ UNCHANGED <<many, rawInput, currentValue, connectRun, result_, error>>

\* After the await of the disconnect lookups (line 101).
ManyAfterDisconnect ==
  /\ pc = "many_disconnect"
  /\ AllSettled("disconnect")
  /\ Connections(input, disconnectIds \o DisconnectLookupIds(pSettle("disconnect")))
  /\ UNCHANGED <<many, rawInput, currentValue, input, connectRun, result_, error>>

\* After the await of the connect _runActions (line 115): the creates are issued.
ManyAfterConnect ==
  /\ pc = "many_connect"
  /\ AllSettled("connect")
  /\ connectRun' = runActions(pSettle("connect"), <<FieldPath, "connect">>)
  /\ calls' = calls \o CreatesIssued(input)
  /\ pc' = "many_create"
  /\ UNCHANGED <<many, rawInput, currentValue, input, disconnectIds, result_, result, error>>

\* After the await of the create _runActions (line 124): throw or return.
ManyAfterCreate ==
  /\ pc = "many_create"
  /\ AllSettled("create")
  /\ LET createRun == runActions(pSettle("create"), <<FieldPath, "create">>)
         allErrors == connectRun[2] \o createRun[2]
     IN IF Len(allErrors) # 0
          THEN /\ pc' = "thrown"
               /\ error' = throwWithErrors(
                    <<"Unable to create and/or connect", Len(allErrors), Target>>, allErrors)
               /\ UNCHANGED result
          ELSE /\ pc' = "returned"
               /\ result' = ManyResult(disconnectIds,
                                       allConnectedIds(connectRun[1], createRun[1]))
               /\ UNCHANGED error
  /\ UNCHANGED <<many, rawInput, currentValue, input, calls, disconnectIds,
                 connectRun, result_>>

-----------------------------------------------------------------------------
\* resolveNestedSingle, from one await to the next.

\* result_[key] = [id]
SetKey(r, key, id) == [k \in DOMAIN r \cup {key} |-> IF k = key THEN <<id>> ELSE r[k]]

\* Lines 178-181: the resolved id is honoured only if it is the current value.
Unset(r, idToDisconnect) ==
  IF currentValue = idToDisconnect THEN SetKey(r, "disconnect", idToDisconnect) ELSE r

\* The one call made as a lookup whatever the operation.
SingleCallAlwaysQuery(inp) ==
  IF Truthy(Get(inp, "connect"))
    THEN Call("itemQuery", Get(Get(inp, "connect"), "id"), ItemQueryName, "connect", 0)
    ELSE Call("itemQuery", Get(inp, "create"), ItemQueryName, "create", 0)

\* The one call of lines 189-191.
SingleCall(inp) ==
  IF Truthy(Get(inp, "connect"))
    THEN Call("itemQuery", Get(Get(inp, "connect"), "id"), ItemQueryName, "connect", 0)
    ELSE Call("createMutation", Get(inp, "create"), MutationState, "create", 0)

\* Lines 184-203 up to the await, or the return.
SingleConnections(inp, r) ==
  IF Truthy(Get(inp, "connect")) \/ Truthy(Get(inp, "create"))
    THEN /\ calls' = Append(calls, SingleCall(inp))
         /\ pc' = "single_connect"
         /\ result_' = r
         /\ UNCHANGED result
    ELSE /\ pc' = "returned"
         /\ result' = Obj(r)
         /\ result_' = r
         /\ UNCHANGED calls

\* resolveNested, to-one: validation, then resolveNestedSingle up to its first await.
ResolveNestedSingle ==
  /\ pc = "start"
  /\ ~many
  /\ cleanAndValidateInput(rawInput, many).ok
  /\ LET inp == cleanAndValidateInput(rawInput, many).input IN
     /\ input' = inp
     /\ IF (Truthy(Get(inp, "disconnect")) \/ Truthy(Get(inp, "disconnectAll")))
            /\ Truthy(currentValue)
          THEN IF Truthy(Get(inp, "disconnectAll"))
                 THEN SingleConnections(inp, Unset(<<>>, currentValue))
               ELSE IF Truthy(Get(Get(inp, "disconnect"), "id"))
                 THEN SingleConnections(inp, Unset(<<>>, Get(Get(inp, "disconnect"), "id")))
               ELSE /\ calls' = Append(calls,
                         Call("itemQuery", Get(inp, "disconnect"), ItemQueryName,
                              "disconnect", 0))
                    /\ pc' = "single_disconnect"
                    /\ UNCHANGED <<result_, result>>
          ELSE SingleConnections(inp, <<>>)
  /\ UNCHANGED <<many, rawInput, currentValue, disconnectIds, connectRun, error>>

\* The looked-up id taken as it is, without toString().
LookedUpIdUnconverted(c) ==
  IF c.state = "fulfilled" /\ Truthy(c.value) THEN Get(c.value, "id") ELSE Undefined

\* (await itemQuery(...)).id.toString(), or undefined when the await or the
\* property read throws (lines 164-175).
LookedUpId(c) ==
  IF c.state = "fulfilled" /\ Truthy(c.value) THEN toString(Get(c.value, "id")) ELSE Undefined

\* After the await of the disconnect lookup (line 166).
SingleAfterDisconnect ==
  /\ pc = "single_disconnect"
  /\ AllSettled("disconnect")
  /\ SingleConnections(input, Unset(result_, LookedUpId(OfOp("disconnect")[1])))
  /\ UNCHANGED <<many, rawInput, currentValue, input, disconnectIds, connectRun, error>>

\* The return of lines 198-203 without the test of line 199.
SingleAfterConnectUnchecked ==
  /\ pc = "single_connect"
  /\ ~Pending(calls[Len(calls)])
  /\ LET c == calls[Len(calls)]
         operation == IF Truthy(Get(input, "connect")) THEN "connect" ELSE "create"
     IN IF c.state = "rejected"
          THEN /\ pc' = "thrown"
               /\ error' = throwWithErrors(
                    <<"Unable to", operation, "a", Target>>,
                    <<[reason |-> c.value, path |-> <<FieldPath, operation>>]>>)
               /\ UNCHANGED result
          ELSE /\ pc' = "returned"
               /\ result' = Obj(SetKey(result_, "connect", Get(c.value, "id")))
               /\ UNCHANGED error
  /\ UNCHANGED <<many, rawInput, currentValue, input, calls, disconnectIds,
                 connectRun, result_>>

\* After the await of the connect lookup or the create (line 189): throw or return.
SingleAfterConnect ==
  /\ pc = "single_connect"
  /\ ~Pending(calls[Len(calls)])
  /\ LET c == calls[Len(calls)]
         operation == IF Truthy(Get(input, "connect")) THEN "connect" ELSE "create"
     IN IF c.state = "rejected"
          THEN /\ pc' = "thrown"
               /\ error' = throwWithErrors(
                    <<"Unable to", operation, "a", Target>>,
                    <<[reason |-> c.value, path |-> <<FieldPath, operation>>]>>)
               /\ UNCHANGED result
          ELSE /\ pc' = "returned"
               /\ result' = Obj(IF Truthy(c.value)
                                  THEN SetKey(result_, "connect", Get(c.value, "id"))
                                  ELSE result_)
               /\ UNCHANGED error
  /\ UNCHANGED <<many, rawInput, currentValue, input, calls, disconnectIds,
                 connectRun, result_>>

-----------------------------------------------------------------------------
\* The collaborator list.

\* The error a rejected call carries: a fresh error object each time.
Rejection(n) == [type |-> "error", n |-> n]

SettleCall(i, state, value) ==
  /\ calls' = [calls EXCEPT ![i] = [@ EXCEPT !.state = state, !.value = value,
                                              !.settledAt = NumSettled + 1]]
  /\ UNCHANGED <<many, rawInput, currentValue, pc, input, disconnectIds,
                 connectRun, result_, result, error>>

\* A pending itemQuery / createMutation promise fulfils.
Fulfil ==
  \E i \in DOMAIN calls :
    /\ Pending(calls[i])
    /\ \E v \in Fulfilments(calls[i]) : SettleCall(i, "fulfilled", v)

\* A pending itemQuery / createMutation promise rejects.
Reject ==
  \E i \in DOMAIN calls :
    /\ Pending(calls[i])
    /\ SettleCall(i, "rejected", Rejection(NumSettled + 1))

-----------------------------------------------------------------------------

\* The state at the call of resolveNested, its input drawn from the given sets.
Called(manyInputs, singleInputs) ==
  /\ many \in BOOLEAN
  /\ rawInput \in (IF many THEN manyInputs ELSE singleInputs)
  /\ currentValue \in (IF many THEN ManyCurrentValues ELSE SingleCurrentValues)
  /\ pc = "start"
  /\ input = Undefined
  /\ calls = <<>>
  /\ disconnectIds = <<>>
  /\ connectRun = <<<<>>, <<>>>>
  /\ result_ = <<>>
  /\ result = Undefined
  /\ error = Undefined

\* Calls whose input holds recognised keys only, each absent or holding items.
Init == Called(ManyInputs(Absent, Absent), SingleInputs(Absent))

\* Calls whose input may also hold an unknown key, empty lists and non-lists.
InitValidate == Called(ManyInputs(Empties, UnknownValues), SingleInputs(UnknownValues))

Next ==
  \/ ResolveNestedInvalid
  \/ ResolveNestedMany
  \/ ResolveNestedSingle
  \/ ManyAfterDisconnect
  \/ ManyAfterConnect
  \/ ManyAfterCreate
  \/ SingleAfterDisconnect
  \/ SingleAfterConnect
  \/ Fulfil
  \/ Reject

Spec == Init /\ [][Next]_vars

\* The steps of resolveNested itself: its synchronous start and the
\* continuations after its awaits.
Resolution ==
  \/ ResolveNestedInvalid
  \/ ResolveNestedMany
  \/ ResolveNestedSingle
  \/ ManyAfterDisconnect
  \/ ManyAfterConnect
  \/ ManyAfterCreate
  \/ SingleAfterDisconnect
  \/ SingleAfterConnect

\* The event loop runs a continuation once the promise it awaits has settled;
\* nothing obliges the collaborator to ever settle a call.
SpecLive == Init /\ [][Next]_vars /\ WF_vars(Resolution)

\* Validation and dispatch alone, over the wider inputs.
NextValidate ==
  \/ ResolveNestedInvalid
  \/ ResolveNestedMany
  \/ ResolveNestedSingle

SpecValidate == InitValidate /\ [][NextValidate]_vars

-----------------------------------------------------------------------------
\* Properties.

Validated == input # Undefined
Done == pc \in {"returned", "thrown"}

\* The connect and create sub-operations that rejected.
RejectedSubOperations ==
  {i \in DOMAIN calls : calls[i].op \in {"connect", "create"} /\ calls[i].state = "rejected"}

ErrorOf(i) == [reason |-> calls[i].value,
               path |-> <<FieldPath, calls[i].op, calls[i].index>>]

\* C1: in a to-many call, a rejected connect or create sub-operation makes the
\* call fail without a result, with one error per rejected sub-operation of
\* both groups and that number in the message; with none rejected it returns.
C1_AggregateFailure ==
  (many /\ Validated) =>
    /\ RejectedSubOperations # {} => pc # "returned" /\ result = Undefined
    /\ pc = "thrown" =>
         /\ RejectedSubOperations # {}
         /\ Len(error.errors) = Cardinality(RejectedSubOperations)
         /\ Range(error.errors) = {ErrorOf(i) : i \in RejectedSubOperations}
         /\ error.message = <<"Unable to create and/or connect",
                              Cardinality(RejectedSubOperations), Target>>
    /\ (Done /\ RejectedSubOperations = {}) => pc = "returned" /\ result # Undefined

C1_Witness ==
  /\ many /\ Validated /\ pc = "thrown"
  /\ \E i, j \in RejectedSubOperations : calls[i].op = "connect" /\ calls[j].op = "create"

\* C2: in a to-many call, whatever the completion order, every error carries the
\* path [field.path, operation, i] of a rejected sub-operation of that operation
\* at position i of the input list, and no two errors share operation and index.
C2_ErrorPaths ==
  (many /\ Validated /\ pc = "thrown") =>
    /\ \A k \in DOMAIN error.errors :
         \E i \in RejectedSubOperations :
           /\ error.errors[k] = ErrorOf(i)
           /\ calls[i].arg = IF calls[i].op = "connect"
                               THEN Get(Get(input, "connect").items[calls[i].index + 1], "id")
                               ELSE Get(input, "create").items[calls[i].index + 1]
    /\ \A i \in RejectedSubOperations : \E k \in DOMAIN error.errors : error.errors[k] = ErrorOf(i)
    /\ \A k1, k2 \in DOMAIN error.errors :
         error.errors[k1].path = error.errors[k2].path => k1 = k2

\* The rejected item is second in its list and settled before the first one.
C2_Witness ==
  /\ many /\ Validated /\ pc = "thrown"
  /\ \E i, j \in DOMAIN calls :
       /\ calls[i].op = calls[j].op /\ calls[i].op \in {"connect", "create"}
       /\ calls[i].index = 0 /\ calls[j].index = 1
       /\ calls[j].state = "rejected" /\ calls[i].state = "fulfilled"
       /\ calls[j].settledAt < calls[i].settledAt

\* The ids an operation's calls resolved to, by position in the input list.
ResolvedIds(op) ==
  LET n == Cardinality({i \in DOMAIN calls : calls[i].op = op})
      at(k) == CHOOSE i \in DOMAIN calls : calls[i].op = op /\ calls[i].index = k - 1
      found == SelectSeq([k \in 1..n |-> calls[at(k)]],
                         LAMBDA c : c.state = "fulfilled" /\ c.value # Null)
  IN [k \in DOMAIN found |-> found[k].value.props.id]

\* One call per item of the operation's input list, for that item.
OneCallPerItem(op) ==
  LET items == IF Truthy(Get(input, op)) THEN Get(input, op).items ELSE <<>> IN
  /\ Cardinality({i \in DOMAIN calls : calls[i].op = op}) = Len(items)
  /\ \A k \in DOMAIN items :
       \E i \in DOMAIN calls :
         /\ calls[i].op = op /\ calls[i].index = k - 1
         /\ calls[i].arg = IF op = "connect" THEN Get(items[k], "id") ELSE items[k]

\* C3: a to-many call without rejection returns, whatever the completion order,
\* the ids of the non-null connect lookups in input order followed by the ids
\* of the created items in input order.
C3_ConnectOrder ==
  (many /\ Validated /\ pc = "returned") =>
    /\ OneCallPerItem("connect") /\ OneCallPerItem("create")
    /\ result.props.connect = ResolvedIds("connect") \o ResolvedIds("create")

\* Two items of one list, both found or created, the second settled first.
C3_Witness ==
  /\ many /\ Validated /\ pc = "returned"
  /\ \E i, j \in DOMAIN calls :
       /\ calls[i].op = calls[j].op /\ calls[i].op \in {"connect", "create"}
       /\ calls[i].index < calls[j].index
       /\ calls[j].settledAt < calls[i].settledAt
       /\ calls[i].value # Null /\ calls[j].value # Null
  /\ Len(result.props.connect) = 2

CallsOf(op) == {i \in DOMAIN calls : calls[i].op = op}

\* C4 as claimed: the creates are issued without waiting for the connect lookups,
\* so whenever the connect lookups of a call with create items are out, its
\* creates are out too.
C4_IssuedTogether ==
  (many /\ Validated /\ Truthy(Get(input, "connect")) /\ Truthy(Get(input, "create"))
     /\ CallsOf("connect") # {})
    => CallsOf("create") # {}

\* C4, amended: the two groups run one after the other. No create is issued
\* before every connect lookup of the call has settled, so a connect lookup and
\* a create are never pending at the same time.
C4_CreatesAfterConnects ==
  many =>
    \A i \in CallsOf("connect"), j \in CallsOf("create") :
      /\ ~Pending(calls[i])
      /\ calls[i].settledAt > 0
      /\ Pending(calls[j]) \/ calls[i].settledAt < calls[j].settledAt

\* A create is pending after the connect lookups of the same call have settled.
C4_Witness ==
  /\ many /\ pc = "many_create"
  /\ \E i \in CallsOf("connect"), j \in CallsOf("create") :
       ~Pending(calls[i]) /\ Pending(calls[j])

\* The disconnect ids a call has resolved when its connections section runs.
ResolvedDisconnect ==
  IF many THEN disconnectIds
  ELSE IF "disconnect" \in DOMAIN result_ THEN result_.disconnect ELSE <<>>

FailedOnConnections == Validated /\ pc = "thrown"

\* C5 as claimed: when a connect/create sub-operation fails in a call that
\* resolved a non-empty disconnect set, that set is still delivered to the caller.
C5_DisconnectDelivered ==
  (FailedOnConnections /\ ResolvedDisconnect # <<>>) =>
    \/ result # Undefined /\ Get(result, "disconnect") = ResolvedDisconnect
    \/ "disconnect" \in DOMAIN error /\ error.disconnect = ResolvedDisconnect

\* C5, amended: a call either returns its complete delta or throws; a call that
\* fails on a connect/create sub-operation returns nothing, and the error it
\* throws carries the message and the error list only, so a disconnect set it
\* had resolved is not delivered.
C5_FailureDeliversNoDelta ==
  /\ FailedOnConnections =>
       /\ result = Undefined
       /\ DOMAIN error = {"message", "errors"}
       /\ \A k \in DOMAIN error.errors : DOMAIN error.errors[k] = {"reason", "path"}
  /\ pc = "returned" =>
       /\ error = Undefined
       /\ RejectedSubOperations = {}
       /\ many => result.props.disconnect = disconnectIds

\* A call fails on its connections after it resolved a disconnect id.
C5_Witness ==
  /\ FailedOnConnections
  /\ ResolvedDisconnect # <<>>
  /\ RejectedSubOperations # {}

\* The disconnect list lines 87-106 give: the ids of the selectors with an id,
\* then the id found for each selector without one, in their order in the list.
ExpectedDisconnect ==
  LET items == Get(input, "disconnect").items
      given == SelectSeq(items, LAMBDA item : "id" \in DOMAIN item.props)
  IN [k \in DOMAIN given |-> given[k].props.id] \o ResolvedIds("disconnect")

\* C6: in a to-many call a disconnect lookup that rejects or returns null never
\* fails the call and never adds an error: the selector contributes no id, and
\* the other selectors contribute theirs.
C6_DisconnectLookupsSwallowed ==
  (many /\ Validated /\ CallsOf("disconnect") # {}) =>
    /\ pc = "thrown" =>
         /\ RejectedSubOperations # {}
         /\ \A k \in DOMAIN error.errors : error.errors[k].path[2] \in {"connect", "create"}
         /\ \A k \in DOMAIN error.errors, i \in CallsOf("disconnect") :
              error.errors[k].reason # calls[i].value
    /\ pc \notin {"start", "many_disconnect"} => disconnectIds = ExpectedDisconnect
    /\ pc = "returned" => result.props.disconnect = ExpectedDisconnect

\* One lookup rejected, another one found its item, and the call returned.
C6_Witness ==
  /\ many /\ pc = "returned"
  /\ \E i, j \in CallsOf("disconnect") :
       /\ calls[i].state = "rejected"
       /\ calls[j].state = "fulfilled" /\ calls[j].value # Null
  /\ Len(result.props.disconnect) = 1

\* C7: a to-many call with disconnectAll: true that returns has the whole
\* current value as its disconnect list; a disconnect list given with it is
\* ignored and looked up nowhere, and connect/create are resolved as usual.
C7_DisconnectAll ==
  (many /\ pc = "returned" /\ Get(rawInput, "disconnectAll") = Bool(TRUE)) =>
    /\ result.props.disconnect = currentValue.items
    /\ CallsOf("disconnect") = {}
    /\ OneCallPerItem("connect") /\ OneCallPerItem("create")
    /\ result.props.connect = ResolvedIds("connect") \o ResolvedIds("create")

\* disconnectAll with a disconnect selector that would need a lookup, a current
\* value and a connect that finds its item.
C7_Witness ==
  /\ many /\ pc = "returned" /\ Get(rawInput, "disconnectAll") = Bool(TRUE)
  /\ Truthy(Get(input, "disconnect"))
  /\ \E k \in DOMAIN Get(input, "disconnect").items :
       "id" \notin DOMAIN Get(input, "disconnect").items[k].props
  /\ currentValue.items # <<>>
  /\ result.props.connect # <<>>

ResultIds(key) == IF key \in DOMAIN result.props THEN Range(result.props[key]) ELSE {}

\* C8 as claimed: no identifier is in both lists of a returned result.
C8_Disjoint ==
  pc = "returned" => ResultIds("disconnect") \cap ResultIds("connect") = {}

\* C8, amended: the two lists of a returned result are resolved independently
\* and nothing is taken out of either: connect holds the id of every item a
\* connect lookup or create of the call yielded and disconnect every id resolved
\* for disconnection, so one identifier can be in both.
C8_ListsIndependent ==
  pc = "returned" =>
    /\ \A i \in CallsOf("connect") \cup CallsOf("create") :
         (calls[i].state = "fulfilled" /\ calls[i].value # Null)
           => calls[i].value.props.id \in ResultIds("connect")
    /\ Range(ResolvedDisconnect) \subseteq ResultIds("disconnect")

\* A returned result with an identifier in both lists.
C8_Witness ==
  /\ pc = "returned"
  /\ ResultIds("disconnect") \cap ResultIds("connect") # {}

\* A create, connect or disconnect key with content: for a to-many input a list
\* with an item that has a key, for a to-one input a mapping that has a key.
HasContent(k) ==
  /\ k \in ObjectKeys(rawInput) \cap {"create", "connect", "disconnect"}
  /\ LET v == rawInput.props[k] IN
     IF many THEN /\ IsArray(v)
                  /\ \E i \in DOMAIN v.items : ObjectKeys(v.items[i]) # {}
             ELSE v.type = "object" /\ ObjectKeys(v) # {}

\* Actionable keys when disconnectAll counts only if it is set.
ActionableIfSet ==
  {k \in Range(NESTED_MUTATIONS) :
     HasContent(k) \/ (k = "disconnectAll" /\ Get(rawInput, k) = Bool(TRUE))}

\* Actionable keys when disconnectAll counts whenever it is present.
ActionableIfPresent ==
  {k \in Range(NESTED_MUTATIONS) :
     HasContent(k) \/ (k = "disconnectAll" /\ k \in ObjectKeys(rawInput))}

MissingOperationError ==
  [message |-> <<"Nested mutation operation invalid for", Target>>,
   errors |-> <<[reason |-> MissingOperation, path |-> <<FieldPath>>]>>]

\* Validation fails with MissingOperation exactly without an actionable key,
\* and passes with one unless a to-one input has both create and connect.
MissingOperationIffNone(actionable) ==
  pc # "start" =>
    IF actionable = {}
      THEN pc = "thrown" /\ ~Validated /\ error = MissingOperationError
    ELSE IF ~many /\ {"create", "connect"} \subseteq actionable
      THEN TRUE
    ELSE Validated /\ error # MissingOperationError

\* C9 as claimed: for either cardinality, validation fails with MissingOperation,
\* wrapped with the path [localField.path], when no key carries actionable
\* content, and passes when one does (a disconnectAll that is not set carries none).
C9_MissingOperation == MissingOperationIffNone(ActionableIfSet)

\* C9, amended: the same, with a disconnectAll key counting as an operation
\* whenever it is present, set or not: { disconnectAll: false } passes validation.
C9_MissingOperationUnlessPresent == MissingOperationIffNone(ActionableIfPresent)

\* MissingOperation for an input with an unknown key and a recognised, empty one.
C9_Witness ==
  /\ pc = "thrown" /\ error = MissingOperationError
  /\ "unknown" \in ObjectKeys(rawInput)
  /\ ObjectKeys(rawInput) \cap Range(NESTED_MUTATIONS) # {}

\* The pruned input holds keys of the vocabulary only, each with its value and
\* actionable; unknown keys and keys without content are gone.
PrunedTo(actionable) ==
  Validated =>
    /\ ObjectKeys(input) \subseteq Range(NESTED_MUTATIONS)
    /\ \A k \in ObjectKeys(input) : k \in actionable /\ input.props[k] = rawInput.props[k]
    /\ \A k \in ObjectKeys(rawInput) : k \notin actionable => k \notin ObjectKeys(input)

\* C10 as claimed: the pruned input holds only vocabulary keys with non-empty,
\* actionable content, and a disconnectAll key that survives is set (true).
C10_PrunedActionable == PrunedTo(ActionableIfSet)

\* C10, amended: the same, except that a disconnectAll key survives whenever it
\* is present, whether it is set (true) or not (false).
C10_PrunedDisconnectAllKept == PrunedTo(ActionableIfPresent)

\* An unknown key and a key without content were pruned, a key with content and
\* a disconnectAll: false were kept.
C10_Witness ==
  /\ Validated
  /\ "unknown" \in ObjectKeys(rawInput)
  /\ \E k \in ObjectKeys(rawInput) \cap {"create", "connect", "disconnect"} :
       k \notin ObjectKeys(input)
  /\ \E k \in ObjectKeys(input) : k # "disconnectAll"
  /\ Get(input, "disconnectAll") = Bool(FALSE)

ConflictingOperationsError ==
  [message |-> <<"Nested mutation operation invalid for", Target>>,
   errors |-> <<[reason |-> ConflictingOperations, path |-> <<FieldPath>>]>>]

\* C11: a to-one input with non-empty create and connect fails validation with
\* ConflictingOperations, the same pair on a to-many input is accepted, and
\* the to-one resolver never gets an input holding both connect and create.
C11_ConflictingOperations ==
  pc # "start" =>
    /\ (~many /\ HasContent("create") /\ HasContent("connect")) =>
         pc = "thrown" /\ ~Validated /\ error = ConflictingOperationsError
    /\ (many /\ HasContent("create") /\ HasContent("connect")) =>
         Validated /\ {"create", "connect"} \subseteq ObjectKeys(input)
    /\ (~many /\ Validated) => ~({"create", "connect"} \subseteq ObjectKeys(input))

\* A to-one call with create and connect, refused for the conflict.
C11_Witness ==
  /\ ~many /\ pc = "thrown" /\ error = ConflictingOperationsError
  /\ HasContent("create") /\ HasContent("connect")

\* C12: when validation fails, no itemQuery and no createMutation call is
\* ever issued: a call that is not validated has issued none.
C12_NoCallBeforeValidation == ~Validated => calls = <<>>

\* Validation refused an input that names items to connect or create.
C12_Witness ==
  /\ pc = "thrown" /\ ~Validated
  /\ ObjectKeys(rawInput) \cap {"create", "connect"} # {}

HasEntry(key) == pc = "returned" /\ key \in DOMAIN result.props

\* The id of the item the to-one disconnect lookup found, if it found one.
FoundId ==
  IF \E i \in CallsOf("disconnect") : calls[i].state = "fulfilled" /\ calls[i].value # Null
    THEN calls[CHOOSE i \in CallsOf("disconnect") : TRUE].value.props.id
    ELSE Undefined

\* The id a to-one call resolves for disconnection, given what a lookup yields.
DisconnectIdWith(lookedUp) ==
  IF Get(input, "disconnectAll") = Bool(TRUE) THEN currentValue
  ELSE IF Get(Get(input, "disconnect"), "id") # Undefined
    THEN Get(Get(input, "disconnect"), "id")
  ELSE lookedUp

\* The to-one disconnect rules for a given resolved id.
SingleDisconnectRules(resolved) ==
  (~many /\ Validated) =>
    /\ HasEntry("disconnect") =>
         /\ currentValue # Null
         /\ ObjectKeys(input) \cap {"disconnect", "disconnectAll"} # {}
         /\ resolved = currentValue
         /\ result.props.disconnect = <<currentValue>>
    /\ currentValue = Null => CallsOf("disconnect") = {}
    /\ \A i \in CallsOf("disconnect") :
         /\ (calls[i].state = "rejected" \/ calls[i].value = Null) => ~HasEntry("disconnect")
         /\ pc = "thrown" =>
              /\ Len(error.errors) = 1
              /\ error.errors[1].reason # calls[i].value
              /\ error.errors[1].path[2] \in {"connect", "create"}

\* C13 as claimed: a to-one result has a disconnect entry only if there is a
\* current value and the resolved id (the current value for disconnectAll, else
\* disconnect.id, else the id of the looked-up item) equals it; the entry is the
\* current value; without a current value nothing is looked up; a mismatch, a
\* rejected lookup or a null one gives no entry and no error.
C13_DisconnectOnlyCurrent == SingleDisconnectRules(DisconnectIdWith(FoundId))

\* C13, amended: the same, the id of a looked-up item being compared after its
\* conversion to a string (id.toString()): a looked-up numeric id n gives an
\* entry when the current value is the string of n, and none when it is n.
C13_DisconnectOnlyCurrentAsString ==
  SingleDisconnectRules(DisconnectIdWith(toString(FoundId)))

\* A disconnect by selector whose lookup found the current item.
C13_Witness ==
  /\ ~many /\ HasEntry("disconnect")
  /\ \E i \in CallsOf("disconnect") : calls[i].state = "fulfilled" /\ calls[i].value # Null

\* The operation of a to-one input that connects: connect, else create, else none.
SingleOperation ==
  IF "connect" \in ObjectKeys(input) THEN "connect"
  ELSE IF "create" \in ObjectKeys(input) THEN "create"
  ELSE "none"

ConnectingCalls == CallsOf("connect") \cup CallsOf("create")

\* C14: a to-one call with connect or create attempts exactly one collaborator
\* call for it, a lookup by id or a create; if that call rejects, the call fails
\* with exactly one error tagged [field.path, operation] and returns nothing.
C14_SingleAttempt ==
  (~many /\ Validated /\ pc \in {"single_connect", "returned", "thrown"}) =>
    /\ SingleOperation = "none" => ConnectingCalls = {} /\ pc = "returned"
    /\ SingleOperation = "connect" =>
         /\ Cardinality(ConnectingCalls) = 1
         /\ \A i \in ConnectingCalls :
              /\ calls[i].fn = "itemQuery"
              /\ calls[i].arg = input.props.connect.props.id
    /\ SingleOperation = "create" =>
         /\ Cardinality(ConnectingCalls) = 1
         /\ \A i \in ConnectingCalls :
              /\ calls[i].fn = "createMutation"
              /\ calls[i].arg = input.props.create
    /\ \A i \in ConnectingCalls :
         /\ pc = "thrown" <=> (Done /\ calls[i].state = "rejected")
         /\ pc = "thrown" =>
              /\ result = Undefined
              /\ error = [message |-> <<"Unable to", SingleOperation, "a", Target>>,
                          errors |-> <<[reason |-> calls[i].value,
                                        path |-> <<FieldPath, SingleOperation>>]>>]

\* A to-one create that rejected.
C14_Witness ==
  /\ ~many /\ Validated /\ pc = "thrown"
  /\ \E i \in CallsOf("create") : calls[i].state = "rejected"

\* C15: a to-one call that returns has at most one id in connect and in
\* disconnect; a connect lookup that finds nothing gives no connect entry and
\* no error; without a current value a create that yields id X gives exactly
\* { connect: [X] }.
C15_SingleResult ==
  (~many /\ pc = "returned") =>
    /\ \A key \in ObjectKeys(result) :
         key \in {"connect", "disconnect"} /\ Len(result.props[key]) = 1
    /\ \A i \in ConnectingCalls :
         /\ calls[i].value = Null => "connect" \notin ObjectKeys(result)
         /\ calls[i].value # Null => result.props.connect = <<calls[i].value.props.id>>
         /\ (currentValue = Null /\ calls[i].op = "create") =>
              result = Obj([connect |-> <<calls[i].value.props.id>>])
    /\ error = Undefined

\* No current value, a disconnectAll, and a create that yielded an item.
C15_Witness ==
  /\ ~many /\ pc = "returned" /\ currentValue = Null
  /\ "disconnectAll" \in ObjectKeys(input)
  /\ \E i \in CallsOf("create") : calls[i].state = "fulfilled"
  /\ ObjectKeys(result) = {"connect"}

\* The selectors of the disconnect list that carry no id, in list order.
SelectorsWithoutId ==
  SelectSeq(Get(input, "disconnect").items, LAMBDA item : "id" \notin ObjectKeys(item))

\* C16: in a to-many call without disconnectAll, a disconnect selector with an
\* id contributes it without a lookup, each selector without an id gets exactly
\* one lookup, and every id a lookup finds joins the disconnect list, in the
\* current value or not.
C16_DisconnectSelectors ==
  (many /\ Validated /\ Get(input, "disconnectAll") # Bool(TRUE)
     /\ "disconnect" \in ObjectKeys(input)) =>
    /\ Cardinality(CallsOf("disconnect")) = Len(SelectorsWithoutId)
    /\ \A k \in DOMAIN SelectorsWithoutId :
         \E i \in CallsOf("disconnect") :
           /\ calls[i].index = k - 1
           /\ calls[i].fn = "itemQuery"
           /\ calls[i].arg = SelectorsWithoutId[k]
    /\ pc # "many_disconnect" => disconnectIds = ExpectedDisconnect
    /\ pc = "returned" => result.props.disconnect = ExpectedDisconnect

\* A selector with an id and one whose lookup found an id outside the current value.
C16_Witness ==
  /\ many /\ pc = "returned" /\ "disconnectAll" \notin ObjectKeys(input)
  /\ \E k \in DOMAIN Get(input, "disconnect").items :
       "id" \in ObjectKeys(Get(input, "disconnect").items[k])
  /\ \E i \in CallsOf("disconnect") :
       /\ calls[i].state = "fulfilled" /\ calls[i].value # Null
       /\ calls[i].value.props.id \notin Range(currentValue.items)
       /\ calls[i].value.props.id \in Range(result.props.disconnect)
  /\ Len(result.props.disconnect) = 2

ItemsOf(op) == IF op \in ObjectKeys(input) THEN input.props[op].items ELSE <<>>

\* C17: a to-many call with connect and/or create looks every connect item up
\* once and submits every create item once, whether or not a sibling of either
\* group rejects, and neither fails nor returns before all of them settled.
C17_SettleAll ==
  (many /\ Validated) =>
    /\ \A op \in {"connect", "create"} : Cardinality(CallsOf(op)) <= Len(ItemsOf(op))
    /\ \A op \in {"connect", "create"} :
         \A i, j \in CallsOf(op) : calls[i].index = calls[j].index => i = j
    /\ Done =>
         /\ OneCallPerItem("connect") /\ OneCallPerItem("create")
         /\ \A i \in DOMAIN calls : ~Pending(calls[i])

\* A connect lookup rejected and the create of the same call was still made.
C17_Witness ==
  /\ many /\ Validated /\ pc = "thrown"
  /\ \E i \in CallsOf("connect"), j \in CallsOf("create") :
       /\ calls[i].state = "rejected"
       /\ calls[j].state = "fulfilled"
       /\ calls[i].settledAt < calls[j].settledAt

\* The input item a call was issued for.
ItemOfCall(i) ==
  IF calls[i].op = "disconnect" THEN calls[i].arg
  ELSE input.props[calls[i].op].items[calls[i].index + 1]

\* C18: validation discards the empty objects of a to-many list: a key is valid
\* iff its value is a list with an item that has a key, and no collaborator
\* lookup or create is issued for an item without a key.
C18_EmptyItemsDiscarded ==
  (many /\ Validated) =>
    /\ \A k \in {"create", "connect", "disconnect"} :
         k \in ObjectKeys(input) <=> HasContent(k)
    /\ \A i \in DOMAIN calls : ObjectKeys(ItemOfCall(i)) # {}

\* C19: every collaborator call gets the context of the resolveNested call, and
\* every createMutation call gets its mutationState, the same for all siblings;
\* a lookup gets the item query name in that position.
C19_ContextPassedThrough ==
  \A i \in DOMAIN calls :
    /\ calls[i].context = Context
    /\ calls[i].fn = "createMutation" => calls[i].third = MutationState
    /\ calls[i].fn = "itemQuery" => calls[i].third = ItemQueryName

\* A lookup and a create made by one resolution.
C19_Witness ==
  /\ \E i \in DOMAIN calls : calls[i].fn = "createMutation"
  /\ \E i \in DOMAIN calls : calls[i].fn = "itemQuery"

SomePending == \E i \in DOMAIN calls : Pending(calls[i])

\* C20: the resolution has no timeout of its own: it returns or throws once
\* every call it made has settled, and while a call stays pending for ever it
\* never returns or throws.
C20_TerminatesIffSettled ==
  /\ <>[]SomePending \/ <>Done
  /\ <>[]SomePending => []~Done

\* A resolution that came to its end after awaiting two batches of calls.
C20_Witness ==
  /\ Done /\ ~SomePending
  /\ Cardinality({calls[i].op : i \in DOMAIN calls}) = 2

====
